---- MODULE Spec2Model ----
(***************************************************************************)
(* A model of slic3r_display: the markup data model (markup.py), the       *)
(* representables and the JSON encoder (core.py) and the conversion        *)
(* pipeline (convert.py).                                                  *)
(*                                                                         *)
(* Python objects that are shared by reference and mutated in place (the   *)
(* position lists of control points) live in `heap`: an address is an      *)
(* index of the sequence, and a list object is the tagged value            *)
(* [tag |-> "list", ref |-> address].  Floats are modelled by integers;    *)
(* the only arithmetic the program does on them is negation.  Strings      *)
(* built by f-strings are sequences of one-character strings.  A raised    *)
(* exception is the name of its class in an `err` field, "none" otherwise. *)
(* The model follows the behaviour on Python 3.9/3.10 (setup.py,           *)
(* python_requires >= 3.9).                                                *)
(***************************************************************************)
EXTENDS Integers, Sequences, FiniteSets, TLC

VARIABLES
    heap,       \* the position lists allocated so far
    mk,         \* Spec: the markup object under test
    ctrlPt,     \* SpecPoint: a control point outside any markup
    prevMk,     \* Spec: the view of mk before the last call
    call,       \* Spec: the last call made on mk
    err,        \* the exception the last call raised, "none" if none
    rep,        \* SpecRep: a representable (class, raw geometry, mrk_obj)
    nRebuilds,  \* SpecRep: the number of _update_markups calls so far
    firstDoc,   \* SpecRep: the view of the document after the first rebuild
    out,        \* SpecRep: the JSON document last produced
    decoded,    \* SpecRep: the markups decoded from out
    file,       \* SpecFile: the input file; SpecRep: the file write writes
    swapFlag,   \* SpecFile: convert_file's swap_coordinate_system argument
    res,        \* SpecFile: what convert_file returned or raised
    nSwaps,     \* SpecShare: swaps applied to the converted representable
    inputs,     \* SpecConcat: the arguments of the concatenation
    resA,       \* SpecConcat: result of concatenate / concatenate_files
    resB        \* SpecConcat: result of the per-file call pattern

vars == <<heap, mk, ctrlPt, prevMk, call, err, rep, nRebuilds, firstDoc, out, decoded,
          file, swapFlag, res, nSwaps, inputs, resA, resB>>

(***************************************************************************)
(* Bounds of the model.                                                    *)
(***************************************************************************)
MaxLen == 3        \* control points a markup under test may grow to
MaxPts == 2        \* points per markup / raw point list
MaxMarkups == 2    \* markups per file, lines or curves per representable
MaxRebuilds == 2   \* _update_markups calls followed in one run
MaxFiles == 2      \* arguments of a concatenation

\* The coordinates the inputs are drawn from.
Pts == { <<0, 0, 0>>, <<1, 2, 3>> }

\* Sequences over S of length lo..hi.
SeqsOf(S, lo, hi) == UNION { [1..n -> S] : n \in lo..hi }

\* Optional values: None is the empty tuple, a value v is <<v>>.
None == <<>>
Some(v) == <<v>>

\* The value of a variable the specification at hand does not use.
Unused == [kind |-> "unused"]

(***************************************************************************)
(* settings.py                                                             *)
(***************************************************************************)
DEFAULT_POSITION == <<0, 0, 0>>
STATUS_DEFINED == "defined"
STATUS_UNDEFINED == "undefined"
LINE_MARKUP_TYPE == "Line"
POINT_MARKUP_TYPE == "Fiducial"
CURVE_MARKUP_TYPE == "Curve"
CLOSED_CURVE_MARKUP_TYPE == "ClosedCurve"

(***************************************************************************)
(* String formatting (f-strings): str(n) of a natural number.              *)
(***************************************************************************)
Digit(d) == CASE d = 0 -> "0" [] d = 1 -> "1" [] d = 2 -> "2" [] d = 3 -> "3"
              [] d = 4 -> "4" [] d = 5 -> "5" [] d = 6 -> "6" [] d = 7 -> "7"
              [] d = 8 -> "8" [] d = 9 -> "9"

RECURSIVE ToStr(_)
ToStr(n) == IF n < 10 THEN <<Digit(n)>>
            ELSE ToStr(n \div 10) \o <<Digit(n % 10)>>

\* Python truthiness of an optional integer argument (None and 0 are falsy).
Truthy(id_) == id_ # None /\ id_[1] # 0

(***************************************************************************)
(* markup.py: ControlPoint                                                 *)
(***************************************************************************)
\* A list object holding position p.
PyList(a) == [tag |-> "list", ref |-> a]

\* ControlPoint(id, label): the dataclass constructor; position is a fresh
\* copy of DEFAULT_POSITION, positionStatus the default.  The fields never
\* written after construction (description, orientation, ...) are left out.
ControlPoint(h, id_, label) ==
    [heap  |-> Append(h, DEFAULT_POSITION),
     point |-> [tag |-> "ControlPoint", id |-> id_, label |-> label,
                position |-> PyList(Len(h) + 1),
                positionStatus |-> STATUS_UNDEFINED]]

\* A set_position that moves the point and leaves positionStatus alone.
set_positionStatusMutant(h, cp, x, y, z) ==
    [heap  |-> [h EXCEPT ![cp.position.ref] = <<x, y, z>>],
     point |-> cp]

\* set_position: writes the three components into the position list in place.
set_position(h, cp, x, y, z) ==
    [heap  |-> [h EXCEPT ![cp.position.ref] = <<x, y, z>>],
     point |-> [cp EXCEPT !.positionStatus = STATUS_DEFINED]]

\* make_control_point(id_, label, x, y, z): label is f"{label}-{id_}".
make_control_point(h, id_, label, x, y, z) ==
    set_position(ControlPoint(h, id_, label \o <<"-">> \o ToStr(id_)).heap,
                 ControlPoint(h, id_, label \o <<"-">> \o ToStr(id_)).point,
                 x, y, z)

(***************************************************************************)
(* markup.py: Markup and its three subclasses                              *)
(***************************************************************************)
NewMarkup(cls, type, cps) ==
    [cls |-> cls, type |-> type, controlPoints |-> cps,
     lastUsedControlPointNumber |-> 0]

PointMarkup(cps) == NewMarkup("PointMarkup", POINT_MARKUP_TYPE, cps)
LineMarkup(cps) == NewMarkup("LineMarkup", LINE_MARKUP_TYPE, cps)
CurveMarkup(cps) == NewMarkup("CurveMarkup", CURVE_MARKUP_TYPE, cps)

markup_factory(cls) ==
    CASE cls = "PointMarkup" -> PointMarkup(<<>>)
      [] cls = "LineMarkup"  -> LineMarkup(<<>>)
      [] cls = "CurveMarkup" -> CurveMarkup(<<>>)

types(cls) ==
    CASE cls = "PointMarkup" -> {POINT_MARKUP_TYPE}
      [] cls = "LineMarkup"  -> {LINE_MARKUP_TYPE}
      [] cls = "CurveMarkup" -> {CURVE_MARKUP_TYPE, CLOSED_CURVE_MARKUP_TYPE}

\* The label prefix: "OC" for a curve, "L" for the base class (and so for
\* PointMarkup and LineMarkup, which do not override it).
prefix(m) == IF m.cls = "CurveMarkup" THEN <<"O", "C">> ELSE <<"L">>

\* capacity: 2 for a line, None otherwise.
capacity(m) == IF m.cls = "LineMarkup" THEN Some(2) ELSE None

\* Markup.add(point, id_=None); point is the 3-vector read from the argument.
\* The markup with the new control point r.point appended.
Appended(m, r) ==
    [err |-> "none", heap |-> r.heap,
     markup |-> [m EXCEPT !.controlPoints = Append(@, r.point)]]

\* The label add passes on: f"{self.prefix}{f'_{id_}' if id_ else ''}"
AddLabel(m, id_) ==
    prefix(m) \o (IF Truthy(id_) THEN <<"_">> \o ToStr(id_[1]) ELSE <<>>)

\* An add without the capacity assertion.
addCapacityMutant(h, m, point, id_) ==
    Appended(m, make_control_point(h, Len(m.controlPoints) + 1,
                    AddLabel(m, id_), point[1], point[2], point[3]))

\* An add that numbers the control points from 0.
addIdMutant(h, m, point, id_) ==
    IF capacity(m) # None /\ ~(Len(m.controlPoints) < capacity(m)[1])
    THEN [err |-> "AssertionError", heap |-> h, markup |-> m]
    ELSE Appended(m, make_control_point(h, Len(m.controlPoints),
                         AddLabel(m, id_), point[1], point[2], point[3]))

add(h, m, point, id_) ==
    IF capacity(m) # None /\ ~(Len(m.controlPoints) < capacity(m)[1])
    THEN [err |-> "AssertionError", heap |-> h, markup |-> m]
    ELSE Appended(m, make_control_point(h, Len(m.controlPoints) + 1,
                         AddLabel(m, id_), point[1], point[2], point[3]))

\* Markup.__setitem__(id_, point).  The assertion is evaluated left to
\* right: 0 < id_ first, then id_ <= capacity, which raises TypeError when
\* capacity is None, then id_ <= len(self).
\* self.lastUsedControlPointNumber = id_, unless the branch taken raised.
SetLastUsed(r, id_) ==
    IF r.err # "none" THEN r
    ELSE [r EXCEPT !.markup.lastUsedControlPointNumber = id_]

\* self.controlPoints[id_ - 1].set_position(*point)
Overwritten(m, id_, r) ==
    [err |-> "none", heap |-> r.heap,
     markup |-> [m EXCEPT !.controlPoints[id_] = r.point]]

setitem(h, m, id_, point) ==
    IF ~(0 < id_) THEN [err |-> "AssertionError", heap |-> h, markup |-> m]
    ELSE IF capacity(m) = None
    THEN [err |-> "TypeError", heap |-> h, markup |-> m]
    ELSE IF ~(id_ <= capacity(m)[1] /\ id_ <= Len(m.controlPoints))
    THEN [err |-> "AssertionError", heap |-> h, markup |-> m]
    ELSE IF id_ = Len(m.controlPoints) + 1
    THEN SetLastUsed(add(h, m, point, None), id_)
    ELSE SetLastUsed(Overwritten(m, id_,
             set_position(h, m.controlPoints[id_], point[1], point[2],
                          point[3])), id_)

\* What an observer reads from a control point, a markup, a list of markups:
\* positions are read through the heap.
PointView(h, cp) ==
    [id |-> cp.id, label |-> cp.label, position |-> h[cp.position.ref],
     positionStatus |-> cp.positionStatus]

MarkupView(h, m) ==
    [type |-> m.type,
     controlPoints |-> [k \in 1..Len(m.controlPoints) |->
                            PointView(h, m.controlPoints[k])],
     lastUsedControlPointNumber |-> m.lastUsedControlPointNumber]

DocView(h, ms) == [k \in 1..Len(ms) |-> MarkupView(h, ms[k])]

\* Loops that may raise are folds over a record st = [err, heap, ...]: once
\* st.err is set the rest of the loop is skipped.
\* for p in points: markup.add(p, id_) with st = [err, heap, markup]
RECURSIVE AddEach(_, _, _, _)
AddEach(st, points, ids, k) ==
    IF k > Len(points) \/ st.err # "none" THEN st
    ELSE AddEach(add(st.heap, st.markup, points[k], ids[k]), points, ids, k + 1)

\* Markup.decoder(json_dict), a json object_hook: a dict without "markups" is
\* returned as it is; otherwise one markup of the class per entry, each
\* control point added with the entry's id as label suffix.
\* st = [err, heap, markups]; r is the filled markup of one entry.
MarkupDone(st, r) ==
    [err |-> r.err, heap |-> r.heap,
     markups |-> IF r.err # "none" THEN st.markups
                 ELSE Append(st.markups, r.markup)]

\* A decoder step without the assertion on the entry's type.
DecodeItemAnyTypeMutant(cls, st, item) ==
    MarkupDone(st,
        AddEach([err |-> "none", heap |-> st.heap,
                 markup |-> markup_factory(cls)],
                [j \in 1..Len(item.controlPoints) |->
                     item.controlPoints[j].position],
                [j \in 1..Len(item.controlPoints) |->
                     Some(item.controlPoints[j].id)], 1))

DecodeItem(cls, st, item) ==
    IF item.type \notin types(cls) THEN [st EXCEPT !.err = "AssertionError"]
    ELSE MarkupDone(st,
             AddEach([err |-> "none", heap |-> st.heap,
                      markup |-> markup_factory(cls)],
                     [j \in 1..Len(item.controlPoints) |->
                          item.controlPoints[j].position],
                     [j \in 1..Len(item.controlPoints) |->
                          Some(item.controlPoints[j].id)], 1))

RECURSIVE DecodeItems(_, _, _, _)
DecodeItems(cls, st, items, k) ==
    IF k > Len(items) \/ st.err # "none" THEN st
    ELSE DecodeItems(cls, DecodeItem(cls, st, items[k]), items, k + 1)

\* A slip of the index: the control points of every entry go to the first
\* markup of the list (markups[0] for markups[-1]).
FirstMarkupDone(st, r) ==
    [err |-> r.err, heap |-> r.heap,
     markups |-> IF r.err # "none" THEN st.markups
                 ELSE IF st.markups = <<>> THEN <<r.markup>>
                 ELSE Append([st.markups EXCEPT ![1] = r.markup],
                             markup_factory(r.markup.cls))]

DecodeItemFirst(cls, st, item) ==
    IF item.type \notin types(cls) THEN [st EXCEPT !.err = "AssertionError"]
    ELSE FirstMarkupDone(st,
             AddEach([err |-> "none", heap |-> st.heap,
                      markup |-> IF st.markups = <<>> THEN markup_factory(cls)
                                 ELSE st.markups[1]],
                     [j \in 1..Len(item.controlPoints) |->
                          item.controlPoints[j].position],
                     [j \in 1..Len(item.controlPoints) |->
                          Some(item.controlPoints[j].id)], 1))

RECURSIVE DecodeItemsFirst(_, _, _, _)
DecodeItemsFirst(cls, st, items, k) ==
    IF k > Len(items) \/ st.err # "none" THEN st
    ELSE DecodeItemsFirst(cls, DecodeItemFirst(cls, st, items[k]), items, k + 1)

decoderFirstMutant(cls, h, json_dict) ==
    IF "markups" \notin DOMAIN json_dict
    THEN [err |-> "none", heap |-> h, markups |-> json_dict]
    ELSE DecodeItemsFirst(cls, [err |-> "none", heap |-> h, markups |-> <<>>],
                          json_dict.markups, 1)

decoder(cls, h, json_dict) ==
    IF "markups" \notin DOMAIN json_dict
    THEN [err |-> "none", heap |-> h, markups |-> json_dict]
    ELSE DecodeItems(cls, [err |-> "none", heap |-> h, markups |-> <<>>],
                     json_dict.markups, 1)

(***************************************************************************)
(* core.py: MrkClass, the encoder and the representables                   *)
(***************************************************************************)
SCHEMA == "https://raw.githubusercontent.com/slicer/slicer/master/Modules/Loadable/Markups/Resources/Schema/markups-schema-v1.0.3.json#"

\* dumps(MrkClass(markups), cls=MrkClassEncoder): asdict copies every field,
\* the position lists by value, and the encoder adds "@schema".
Encode(h, markups) == [markups |-> DocView(h, markups), schema |-> SCHEMA]

\* What a call that returns a string returned: "" or a JSON text.
EmptyStr == [kind |-> "empty"]
JsonText(doc) == [kind |-> "json", doc |-> doc]

\* The raw geometry of a representable is a list of point lists (kind
\* "Point") or a list of lists of point lists (kinds "Line" and "Curve").
Deref(h, l) == h[l.ref]
DerefAll(h, ls) == [k \in 1..Len(ls) |-> Deref(h, ls[k])]
RawValues(h, r) ==
    IF r.kind = "Point" THEN DerefAll(h, r.raw)
    ELSE [k \in 1..Len(r.raw) |-> DerefAll(h, r.raw[k])]

\* _PointImplementation.get_point / _LineImplementation.get_line
get_point(r, id_) ==
    IF ~(0 <= id_ /\ id_ < Len(r.raw)) THEN [err |-> "AssertionError"]
    ELSE [err |-> "none", value |-> r.raw[id_ + 1]]

get_line(r, id_) ==
    IF ~(0 <= id_ /\ id_ < Len(r.raw)) THEN [err |-> "AssertionError"]
    ELSE [err |-> "none", value |-> r.raw[id_ + 1]]

\* Slic3rPointRepresentable._update_markups: one new PointMarkup, a control
\* point per raw point with label suffix id_ + 1; the document is replaced
\* at the end.  st = [err, heap, markup].
PointAddStep(st, r, id_) ==
    IF get_point(r, id_).err # "none"
    THEN [st EXCEPT !.err = get_point(r, id_).err]
    ELSE add(st.heap, st.markup, Deref(st.heap, get_point(r, id_).value),
             Some(id_ + 1))

RECURSIVE PointAddLoop(_, _, _)
PointAddLoop(st, r, id_) ==
    IF id_ >= Len(r.raw) \/ st.err # "none" THEN st
    ELSE PointAddLoop(PointAddStep(st, r, id_), r, id_ + 1)

\* A rebuild that appends to the document instead of replacing it.
PointAssignAppendMutant(r, st) ==
    [err |-> st.err, heap |-> st.heap,
     markups |-> IF st.err # "none" THEN r.markups
                 ELSE Append(r.markups, st.markup)]

\* self.mrk_obj.markups = [markup], reached only if the loop did not raise.
PointAssign(r, st) ==
    [err |-> st.err, heap |-> st.heap,
     markups |-> IF st.err # "none" THEN r.markups ELSE <<st.markup>>]

PointUpdateMarkups(h, r) ==
    PointAssign(r, PointAddLoop([err |-> "none", heap |-> h,
                                 markup |-> PointMarkup(<<>>)], r, 0))

\* Slic3rLineRepresentable._update_markups: the document is first replaced
\* by line_count empty LineMarkups, which are then filled in turn; unpacking
\* get_line's result into two points raises ValueError unless it has two.
\* st = [err, heap, markups].
LineAdded(st, id_, a) ==
    [err |-> a.err, heap |-> a.heap,
     markups |-> [st.markups EXCEPT ![id_ + 1] = a.markup]]

LineAdd(st, id_, point) ==
    IF st.err # "none" THEN st
    ELSE LineAdded(st, id_, add(st.heap, st.markups[id_ + 1],
                                Deref(st.heap, point), Some(id_ + 1)))

LineFillStep(st, r, id_) ==
    IF get_line(r, id_).err # "none"
    THEN [st EXCEPT !.err = get_line(r, id_).err]
    ELSE IF Len(get_line(r, id_).value) # 2
    THEN [st EXCEPT !.err = "ValueError"]
    ELSE LineAdd(LineAdd(st, id_, get_line(r, id_).value[1]), id_,
                 get_line(r, id_).value[2])

RECURSIVE LineFillLoop(_, _, _)
LineFillLoop(st, r, id_) ==
    IF id_ >= Len(st.markups) \/ st.err # "none" THEN st
    ELSE LineFillLoop(LineFillStep(st, r, id_), r, id_ + 1)

LineUpdateMarkups(h, r) ==
    LineFillLoop([err |-> "none", heap |-> h,
                  markups |-> [k \in 1..Len(r.raw) |-> LineMarkup(<<>>)]], r, 0)

\* Slic3rCurveRepresentable._update_markups: one Curve markup per point
\* sequence, the points added in order with the prefix "OC".
CurveFillStep(st, r, id_) ==
    MarkupDone(st,
        AddEach([err |-> "none", heap |-> st.heap, markup |-> CurveMarkup(<<>>)],
                DerefAll(st.heap, r.raw[id_ + 1]),
                [j \in 1..Len(r.raw[id_ + 1]) |-> None], 1))

RECURSIVE CurveFillLoop(_, _, _)
CurveFillLoop(st, r, id_) ==
    IF id_ >= Len(r.raw) \/ st.err # "none" THEN st
    ELSE CurveFillLoop(CurveFillStep(st, r, id_), r, id_ + 1)

CurveUpdateMarkups(h, r) ==
    CurveFillLoop([err |-> "none", heap |-> h, markups |-> <<>>], r, 0)

\* _update_markups of the representable's class.
update_markups(h, r) ==
    CASE r.kind = "Point" -> PointUpdateMarkups(h, r)
      [] r.kind = "Line"  -> LineUpdateMarkups(h, r)
      [] r.kind = "Curve" -> CurveUpdateMarkups(h, r)

\* The markup class a representable's document is made of.
MarkupClassOf(kind) ==
    CASE kind = "Point" -> "PointMarkup"
      [] kind = "Line"  -> "LineMarkup"
      [] kind = "Curve" -> "CurveMarkup"

\* Slic3rPointRepresentable.make_from(point_arrangements): "" for an empty
\* list; otherwise one PointMarkup constructed around control points made by
\* make_control_point(id_, f"P_{id_ + 1}", ...), id_ counting from 0.  The
\* inputs of the model are all floats, so the isinstance assertion holds.
\* st = [heap, points].
PointMade(st, c) == [heap |-> c.heap, points |-> Append(st.points, c.point)]

RECURSIVE PointMakeLoop(_, _, _)
PointMakeLoop(st, P, id_) ==
    IF id_ >= Len(P) THEN st
    ELSE PointMakeLoop(
             PointMade(st, make_control_point(st.heap, id_,
                               <<"P", "_">> \o ToStr(id_ + 1),
                               P[id_ + 1][1], P[id_ + 1][2], P[id_ + 1][3])),
             P, id_ + 1)

\* dumps(MrkClass(markups), cls=MrkClassEncoder, indent=2)
PointDumps(st) ==
    [err |-> "none", out |-> JsonText(Encode(st.heap, <<PointMarkup(st.points)>>))]

\* A make_from that loses the last point (an off-by-one in the loop).
PointMakeFromShortMutant(P) ==
    IF Len(P) = 0 THEN [err |-> "none", out |-> EmptyStr]
    ELSE PointDumps(PointMakeLoop([heap |-> <<>>, points |-> <<>>],
                                  SubSeq(P, 1, Len(P) - 1), 0))

PointMakeFrom(P) ==
    IF Len(P) = 0 THEN [err |-> "none", out |-> EmptyStr]
    ELSE IF ~(\A k \in 1..Len(P) : Len(P[k]) = 3)
    THEN [err |-> "AssertionError"]
    ELSE PointDumps(PointMakeLoop([heap |-> <<>>, points |-> <<>>], P, 0))

\* Slic3rLineRepresentable.make_from(point_arrangements): one LineMarkup per
\* line, constructed around two control points with ids 1 and 2 and the
\* label f"L_{id_ + 1}" of the line.  st = [heap, markups, points].
LinePointMade(st, c) ==
    [heap |-> c.heap, markups |-> st.markups,
     points |-> Append(st.points, c.point)]

LinePoint(st, id_, n, point) ==
    LinePointMade(st, make_control_point(st.heap, n,
                          <<"L", "_">> \o ToStr(id_ + 1),
                          point[1], point[2], point[3]))

LineMade(st) ==
    [heap |-> st.heap, markups |-> Append(st.markups, LineMarkup(st.points)),
     points |-> <<>>]

RECURSIVE LineMakeLoop(_, _, _)
LineMakeLoop(st, L, id_) ==
    IF id_ >= Len(L) THEN st
    ELSE LineMakeLoop(
             LineMade(LinePoint(LinePoint(st, id_, 1, L[id_ + 1][1]),
                                id_, 2, L[id_ + 1][2])),
             L, id_ + 1)

LineDumps(st) == [err |-> "none", out |-> JsonText(Encode(st.heap, st.markups))]

LineMakeFrom(L) ==
    IF Len(L) = 0 THEN [err |-> "none", out |-> EmptyStr]
    ELSE IF ~(\A k \in 1..Len(L) : Len(L[k]) = 2)
    THEN [err |-> "AssertionError"]
    ELSE IF ~(\A k \in 1..Len(L) : \A j \in 1..2 : Len(L[k][j]) = 3)
    THEN [err |-> "AssertionError"]
    ELSE LineDumps(LineMakeLoop([heap |-> <<>>, markups |-> <<>>,
                                 points |-> <<>>], L, 0))

make_from(kind, arrangements) ==
    IF kind = "Point" THEN PointMakeFrom(arrangements)
    ELSE LineMakeFrom(arrangements)

\* Slic3rRepresentable.print: _update_markups, then dumps of the document.
Dumped(u) ==
    IF u.err # "none" THEN u
    ELSE [err |-> "none", heap |-> u.heap, markups |-> u.markups,
          out |-> JsonText(Encode(u.heap, u.markups))]

print(h, r) == Dumped(update_markups(h, r))

\* Slic3rRepresentable.write(filename): open, print and the closing of the
\* file are inside a try whose handler is "except Exception": whatever open,
\* the rebuild, dumps or the writing of the text raises is answered with the
\* message "Could not write to ..." and write returns.  io is what the file
\* system does: "ok", "fails" (open raises OSError, nothing else runs),
\* "full" (open succeeds, none of the text can be written: OSError at the
\* write or at the close, after the rebuild) or "truncated" (as "full", but
\* the beginning of the text has reached the file).  err is what reaches
\* the caller, caught the exception the handler took, rebuild the outcome
\* of _update_markups, written what the file holds afterwards (None: there
\* is no file).  before is what the file held when write was called: a
\* failed open touches nothing, so that a file left by an earlier write
\* stays as it is.  A successful open for writing empties the file before
\* the rebuild, so it is left empty when the rebuild raises.
TruncatedText(t) == [kind |-> "truncated text", of |-> t.doc]

Handled(p, io) ==
    IF p.err # "none"
    THEN [err |-> "none", caught |-> p.err, rebuild |-> p.err,
          message |-> TRUE, rebuilt |-> TRUE,
          heap |-> p.heap, markups |-> p.markups, written |-> Some(EmptyStr)]
    ELSE IF io \in {"full", "truncated"}
    THEN [err |-> "none", caught |-> "OSError", rebuild |-> "none",
          message |-> TRUE, rebuilt |-> TRUE,
          heap |-> p.heap, markups |-> p.markups,
          written |-> IF io = "full" THEN Some(EmptyStr)
                      ELSE Some(TruncatedText(p.out))]
    ELSE [err |-> "none", caught |-> "none", rebuild |-> "none",
          message |-> FALSE, rebuilt |-> TRUE,
          heap |-> p.heap, markups |-> p.markups, written |-> Some(p.out)]

write(h, r, io, before) ==
    IF io = "fails"
    THEN [err |-> "none", caught |-> "OSError", rebuild |-> "none",
          message |-> TRUE, rebuilt |-> FALSE, heap |-> h,
          markups |-> r.markups, written |-> before]
    ELSE Handled(print(h, r), io)

\* print(text, file=outfile) ends the text with a newline: of the empty
\* string make_from returns for no arrangements, the newline is all there is;
\* a JSON text stands for the text as the stream or file holds it.
NewlineText == [kind |-> "newline"]

PrintedText(t) == IF t = EmptyStr THEN NewlineText ELSE t

\* cls.print_from(point_arrangements, outfile): the text of make_from,
\* printed to the stream; what make_from raises is raised.
print_from(kind, arrangements) == make_from(kind, arrangements)

\* cls.write_from(point_arrangements, filename): as write, with print_from
\* in the place of print: open, print_from and the closing of the file inside
\* a try whose handler is "except Exception".  No representable is involved,
\* so nothing is rebuilt.  The single newline of an empty text is written
\* whole or not at all.
WrittenFrom(m, io) ==
    IF m.err # "none"
    THEN [err |-> "none", caught |-> m.err, message |-> TRUE,
          written |-> Some(EmptyStr)]
    ELSE IF io = "ok"
    THEN [err |-> "none", caught |-> "none", message |-> FALSE,
          written |-> Some(PrintedText(m.out))]
    ELSE [err |-> "none", caught |-> "OSError", message |-> TRUE,
          written |-> IF io = "truncated" /\ m.out # EmptyStr
                      THEN Some(TruncatedText(m.out))
                      ELSE Some(EmptyStr)]

write_from(kind, arrangements, io, before) ==
    IF io = "fails"
    THEN [err |-> "none", caught |-> "OSError", message |-> TRUE,
          written |-> before]
    ELSE WrittenFrom(print_from(kind, arrangements), io)

(***************************************************************************)
(* convert.py: files, type detection, conversion and concatenation         *)
(***************************************************************************)
\* A .mrk.json file is the parsed document (json: the "markups" array, each
\* entry with its type and its control points' ids and positions) together
\* with the order in which the writer put the keys of a markup object:
\* "schema" (the markup schema's order, "type" first, as 3D Slicer and
\* this package's encoder write it) or "sorted" (alphabetical, "type" last).
\* Its text is a sequence of tokens; the tokens that matter to the content
\* scan are the ones around the value of "type".
QTYPE == "\"type\": \""
QCOMMA == "\","
QUOTE == "\""
CPTEXT == "\"controlPoints\": [...]"

RECURSIVE Flatten(_)
Flatten(ss) == IF ss = <<>> THEN <<>> ELSE Head(ss) \o Flatten(Tail(ss))

EntryText(e, keyOrder) ==
    IF keyOrder = "schema" THEN <<QTYPE, e.type, QCOMMA, CPTEXT, ",">>
    ELSE <<CPTEXT, ",", QTYPE, e.type, QUOTE>>

Text(f) ==
    <<"{\"markups\": [">>
      \o Flatten([k \in 1..Len(f.json.markups) |->
                     <<"{">> \o EntryText(f.json.markups[k], f.keyOrder)
                             \o <<"}">>])
      \o <<"]}">>

\* re.search(pattern, text) is not None.  A "|" in a pattern separates
\* alternatives, each of which is matched literally here.
RECURSIVE Alternatives(_, _)
Alternatives(pattern, acc) ==
    IF pattern = <<>> THEN {acc}
    ELSE IF Head(pattern) = "|" THEN {acc} \cup Alternatives(Tail(pattern), <<>>)
    ELSE Alternatives(Tail(pattern), Append(acc, Head(pattern)))

Occurs(p, text) ==
    \E i \in 1..(Len(text) - Len(p) + 1) : SubSeq(text, i, i + Len(p) - 1) = p

search(pattern, text) == \E p \in Alternatives(pattern, <<>>) : Occurs(p, text)

contains_points(f) == search(<<QTYPE, POINT_MARKUP_TYPE, QCOMMA>>, Text(f))
contains_lines(f) == search(<<QTYPE, LINE_MARKUP_TYPE, QCOMMA>>, Text(f))
contains_curves(f) ==
    search(<<QTYPE, CURVE_MARKUP_TYPE, "|", CLOSED_CURVE_MARKUP_TYPE, QCOMMA>>,
           Text(f))

\* The implementation class convert_file picks, "none" if it raises
\* NotImplementedError.
Detect(f) ==
    IF contains_points(f) THEN "Point"
    ELSE IF contains_lines(f) THEN "Line"
    ELSE IF contains_curves(f) THEN "Curve"
    ELSE "none"

\* _PointImplementation(), _LineImplementation(), _CurveImplementation():
\* an empty document and empty raw geometry.
\* cls is the concrete class, type(representable); kind the variant, the
\* abstract class of core.py it derives from.
ImplementationClass(kind) == <<"_", kind, "Implementation">>

NewImplementation(kind) ==
    [kind |-> kind, cls |-> ImplementationClass(kind), markups |-> <<>>,
     raw |-> <<>>]

\* representable.read(filename): no class of core.py defines read, neither
\* Slic3rRepresentable nor one of its subclasses, so that the attribute
\* lookup raises AttributeError before the file is opened; the
\* representable keeps its empty document.
read(h, r, f) ==
    [err |-> "AttributeError", heap |-> h, rep |-> r, parsed |-> FALSE]

\* The position lists of a document, per markup.
PositionRefs(markups) ==
    [k \in 1..Len(markups) |->
        [j \in 1..Len(markups[k].controlPoints) |->
            markups[k].controlPoints[j].position]]

\* convert_file's loop over the markups read: lines and curves get one list
\* of position lists per markup, points get every position list.
Filled(st) ==
    IF st.err # "none" THEN st
    ELSE [st EXCEPT !.rep.raw =
             IF st.rep.kind = "Point" THEN Flatten(PositionRefs(st.rep.markups))
             ELSE PositionRefs(st.rep.markups)]

\* _PointImplementation.swap_coordinate_system_for(point): reads
\* point.position, which a list does not have, and negates its first two
\* components in place.
Negated(h, point) ==
    [h EXCEPT ![point.position.ref] = <<-h[point.position.ref][1],
                                        -h[point.position.ref][2],
                                        h[point.position.ref][3]>>]

swap_coordinate_system_for(h, point) ==
    IF point.tag # "ControlPoint" THEN [err |-> "AttributeError", heap |-> h]
    ELSE [err |-> "none", heap |-> Negated(h, point), value |-> point]

\* [swap_coordinate_system_for(p) for p in list]; st = [err, heap, value].
SwapCollected(st, r) ==
    [err |-> r.err, heap |-> r.heap,
     value |-> IF r.err # "none" THEN st.value ELSE Append(st.value, r.value)]

RECURSIVE SwapEach(_, _, _)
SwapEach(st, list, k) ==
    IF k > Len(list) \/ st.err # "none" THEN st
    ELSE SwapEach(SwapCollected(st, swap_coordinate_system_for(st.heap, list[k])),
                  list, k + 1)

\* _PointImplementation.swap_coordinate_system:
\* self.points = [self.swap_coordinate_system_for(p) for p in self.points]
PointsSwapped(r, st) ==
    [err |-> st.err, heap |-> st.heap,
     rep |-> IF st.err # "none" THEN r ELSE [r EXCEPT !.raw = st.value]]

PointSwap(h, r) ==
    PointsSwapped(r, SwapEach([err |-> "none", heap |-> h, value |-> <<>>],
                              r.raw, 1))

\* _LineImplementation / _CurveImplementation.swap_coordinate_system:
\* for line in self.lines: line[:] = [swap_coordinate_system_for(p) ...]
\* st = [err, heap, rep].
ListSwapped(st, k, s) ==
    [err |-> s.err, heap |-> s.heap,
     rep |-> IF s.err # "none" THEN st.rep
             ELSE [st.rep EXCEPT !.raw[k] = s.value]]

RECURSIVE ListsSwap(_, _)
ListsSwap(st, k) ==
    IF k > Len(st.rep.raw) \/ st.err # "none" THEN st
    ELSE ListsSwap(ListSwapped(st, k,
                       SwapEach([err |-> "none", heap |-> st.heap,
                                 value |-> <<>>], st.rep.raw[k], 1)),
                   k + 1)

swap_coordinate_system(h, r) ==
    IF r.kind = "Point" THEN PointSwap(h, r)
    ELSE ListsSwap([err |-> "none", heap |-> h, rep |-> r], 1)

Swapped(st, w) == [st EXCEPT !.err = w.err, !.heap = w.heap, !.rep = w.rep]

\* convert_file's swap branch: print(representable.curves) comes first, and
\* only a _CurveImplementation has the attribute.
SwapBranch(st, swap) ==
    IF st.err # "none" \/ ~swap THEN st
    ELSE IF st.rep.kind # "Curve" THEN [st EXCEPT !.err = "AttributeError"]
    ELSE Swapped(st, swap_coordinate_system(st.heap, st.rep))

\* convert(representable): a new _PointImplementation whose points are the
\* position lists of the document's control points, markups outer, control
\* points inner; no rebuild.
convert(r) ==
    [NewImplementation("Point") EXCEPT
        !.raw = Flatten(PositionRefs(r.markups))]

\* What convert_file hands back: the exception, or the converted points.
Returned(st, detected) ==
    IF st.err # "none"
    THEN [err |-> st.err, heap |-> st.heap, detected |-> detected,
          parsed |-> st.parsed]
    ELSE [err |-> "none", heap |-> st.heap, detected |-> detected,
          parsed |-> st.parsed, rep |-> convert(st.rep)]

convert_file(h, f, swap) ==
    IF Detect(f) = "none"
    THEN [err |-> "NotImplementedError", heap |-> h, detected |-> "none",
          parsed |-> FALSE]
    ELSE Returned(SwapBranch(Filled(read(h, NewImplementation(Detect(f)), f)),
                             swap),
                  Detect(f))

\* concatenate(*representables): both assertions first, the second on
\* type(r) is type(representables[0]), the identity of the concrete
\* classes; then, per input, a
\* rebuild and the position lists of the rebuilt document appended to the
\* points of one new _PointImplementation.  st = [err, heap, rep, reps],
\* reps the arguments with the documents their rebuilds left them.
ConcatAppended(st, k, u) ==
    [err |-> u.err, heap |-> u.heap,
     rep |-> IF u.err # "none" THEN st.rep
             ELSE [st.rep EXCEPT !.raw = @ \o Flatten(PositionRefs(u.markups))],
     reps |-> [st.reps EXCEPT ![k].markups = u.markups]]

RECURSIVE ConcatLoop(_, _)
ConcatLoop(st, k) ==
    IF k > Len(st.reps) \/ st.err # "none" THEN st
    ELSE ConcatLoop(ConcatAppended(st, k, update_markups(st.heap, st.reps[k])),
                    k + 1)

\* A concatenate without the assertion on the arguments' types.
concatenateUncheckedMutant(h, representables) ==
    IF Len(representables) = 0
    THEN [err |-> "AssertionError", heap |-> h, reps |-> representables]
    ELSE ConcatLoop([err |-> "none", heap |-> h,
                     rep |-> NewImplementation("Point"),
                     reps |-> representables], 1)

concatenate(h, representables) ==
    IF Len(representables) = 0
    THEN [err |-> "AssertionError", heap |-> h, reps |-> representables]
    ELSE IF \E k \in 1..Len(representables) :
                representables[k].cls # representables[1].cls
    THEN [err |-> "AssertionError", heap |-> h, reps |-> representables]
    ELSE ConcatLoop([err |-> "none", heap |-> h,
                     rep |-> NewImplementation("Point"),
                     reps |-> representables], 1)

\* concatenate_files(*filenames, swap_coordinate_system): every file is
\* converted without swap; with the flag set, each converted representable
\* is swapped before it is collected.  st = [err, heap, reps].
Collected(st, r) ==
    [err |-> r.err, heap |-> r.heap,
     reps |-> IF r.err # "none" THEN st.reps ELSE Append(st.reps, r.rep)]

SwappedAfter(c, swap) ==
    IF c.err # "none" \/ ~swap THEN c
    ELSE swap_coordinate_system(c.heap, c.rep)

RECURSIVE ConvertEach(_, _, _, _)
ConvertEach(st, filenames, k, swap) ==
    IF k > Len(filenames) \/ st.err # "none" THEN st
    ELSE ConvertEach(Collected(st, SwappedAfter(convert_file(st.heap, filenames[k],
                                                             FALSE), swap)),
                     filenames, k + 1, swap)

ConcatenatedIfRead(st) ==
    IF st.err # "none" THEN [err |-> st.err, heap |-> st.heap]
    ELSE concatenate(st.heap, st.reps)

concatenate_files(h, filenames, swap) ==
    ConcatenatedIfRead(ConvertEach([err |-> "none", heap |-> h, reps |-> <<>>],
                                   filenames, 1, swap))

\* The other call pattern:
\* concatenate(*[convert_file(f, swap_coordinate_system) for f in filenames])
RECURSIVE ConvertEachWith(_, _, _, _)
ConvertEachWith(st, filenames, k, swap) ==
    IF k > Len(filenames) \/ st.err # "none" THEN st
    ELSE ConvertEachWith(Collected(st, convert_file(st.heap, filenames[k], swap)),
                         filenames, k + 1, swap)

concatenate_converted(h, filenames, swap) ==
    ConcatenatedIfRead(ConvertEachWith([err |-> "none", heap |-> h,
                                        reps |-> <<>>], filenames, 1, swap))

(***************************************************************************)
(* Spec: one markup object, created empty, on which add and index-assign   *)
(* are called in any order.                                                *)
(***************************************************************************)
Classes == {"PointMarkup", "LineMarkup", "CurveMarkup"}

OtherUnused ==
    /\ ctrlPt = Unused
    /\ rep = Unused /\ nRebuilds = 0 /\ firstDoc = Unused /\ out = Unused
    /\ decoded = Unused /\ file = Unused /\ swapFlag = FALSE /\ res = Unused
    /\ nSwaps = 0 /\ inputs = Unused /\ resA = Unused /\ resB = Unused

Init ==
    /\ heap = <<>>
    /\ mk \in { markup_factory(c) : c \in Classes }
    /\ prevMk = MarkupView(heap, mk)
    /\ call = [op |-> "none"]
    /\ err = "none"
    /\ OtherUnused

\* item.add(p, id_): the caller passes no id_, a falsy id_ or the next number.
MarkupAdd ==
    /\ Len(mk.controlPoints) < MaxLen
    /\ \E p \in Pts, id_ \in {None, Some(0), Some(Len(mk.controlPoints) + 1)} :
         \E r \in {add(heap, mk, p, id_)} :
             /\ heap' = r.heap
             /\ mk' = r.markup
             /\ err' = r.err
             /\ prevMk' = MarkupView(heap, mk)
             /\ call' = [op |-> "add", point |-> p]
    /\ UNCHANGED <<ctrlPt, rep, nRebuilds, firstDoc, out, decoded, file, swapFlag, res,
                   nSwaps, inputs, resA, resB>>

\* item[i] = p
MarkupSetItem ==
    /\ \E i \in -1..(MaxLen + 1), p \in Pts :
         \E r \in {setitem(heap, mk, i, p)} :
             /\ heap' = r.heap
             /\ mk' = r.markup
             /\ err' = r.err
             /\ prevMk' = MarkupView(heap, mk)
             /\ call' = [op |-> "setitem", id |-> i, point |-> p]
    /\ UNCHANGED <<ctrlPt, rep, nRebuilds, firstDoc, out, decoded, file, swapFlag, res,
                   nSwaps, inputs, resA, resB>>

Next == MarkupAdd \/ MarkupSetItem

Spec == Init /\ [][Next]_vars

(***************************************************************************)
(* SpecRep: one representable with fixed raw geometry; its document is      *)
(* rebuilt, printed, built directly by make_from, and what was produced is *)
(* decoded again.                                                          *)
(***************************************************************************)
\* Lists of lists laid out in the heap one after the other.
RefsOf(ss) ==
    [k \in 1..Len(ss) |->
        [j \in 1..Len(ss[k]) |-> PyList(Len(Flatten(SubSeq(ss, 1, k - 1))) + j)]]

PointGeometries == SeqsOf(Pts, 0, MaxPts)
LineGeometries == SeqsOf(SeqsOf(Pts, 1, MaxPts), 0, MaxMarkups)
CurveGeometries == SeqsOf(SeqsOf(Pts, 0, MaxPts), 0, MaxMarkups)

NoOut == [kind |-> "nothing", from |-> "none", err |-> "none"]

\* The path write is given, and what the file there holds (None: no file).
PathHolding(content) == [kind |-> "path", content |-> content]

RepUnused ==
    /\ ctrlPt = Unused
    /\ mk = Unused /\ prevMk = Unused /\ call = Unused
    /\ swapFlag = FALSE /\ res = Unused /\ nSwaps = 0
    /\ resA = Unused /\ resB = Unused

InitRep ==
    /\ \/ \E P \in PointGeometries :
            /\ inputs = P
            /\ heap = P
            /\ rep = [kind |-> "Point", cls |-> ImplementationClass("Point"),
                      markups |-> <<>>,
                      raw |-> [k \in 1..Len(P) |-> PyList(k)]]
       \/ \E kind \in {"Line", "Curve"} :
          \E G \in (IF kind = "Line" THEN LineGeometries ELSE CurveGeometries) :
            /\ inputs = G
            /\ heap = Flatten(G)
            /\ rep = [kind |-> kind, cls |-> ImplementationClass(kind),
                      markups |-> <<>>, raw |-> RefsOf(G)]
    /\ nRebuilds = 0
    /\ firstDoc = Unused
    /\ out = NoOut
    /\ decoded = Unused
    /\ err = "none"
    /\ file = PathHolding(None)
    /\ RepUnused

\* rebuild_markups
RepRebuild ==
    /\ nRebuilds < MaxRebuilds
    /\ \E u \in {update_markups(heap, rep)} :
           /\ heap' = u.heap
           /\ rep' = [rep EXCEPT !.markups = u.markups]
           /\ err' = u.err
           /\ firstDoc' = IF nRebuilds = 0
                          THEN [err |-> u.err, doc |-> DocView(u.heap, u.markups)]
                          ELSE firstDoc
    /\ nRebuilds' = nRebuilds + 1
    /\ UNCHANGED <<ctrlPt, mk, prevMk, call, out, decoded, file, swapFlag, res, nSwaps,
                   inputs, resA, resB>>

\* print(stream): rebuild, then serialize
RepPrint ==
    /\ nRebuilds < MaxRebuilds
    /\ \E u \in {print(heap, rep)} :
           /\ heap' = u.heap
           /\ rep' = [rep EXCEPT !.markups = u.markups]
           /\ err' = u.err
           /\ firstDoc' = IF nRebuilds = 0
                          THEN [err |-> u.err, doc |-> DocView(u.heap, u.markups)]
                          ELSE firstDoc
           /\ out' = IF u.err # "none" THEN out
                     ELSE [kind |-> "json", from |-> "print", err |-> "none",
                           doc |-> u.out.doc]
    /\ nRebuilds' = nRebuilds + 1
    /\ decoded' = Unused
    /\ UNCHANGED <<ctrlPt, mk, prevMk, call, file, swapFlag, res, nSwaps, inputs,
                   resA, resB>>

\* The class's make_from on the literal arrays of the raw geometry.
RepMakeFrom ==
    /\ rep.kind \in {"Point", "Line"}
    /\ \E m \in {make_from(rep.kind, RawValues(heap, rep))} :
           out' = IF m.err # "none"
                  THEN [kind |-> "raised", from |-> "make_from", err |-> m.err]
                  ELSE IF m.out = EmptyStr
                  THEN [kind |-> "empty", from |-> "make_from", err |-> "none"]
                  ELSE [kind |-> "json", from |-> "make_from", err |-> "none",
                        doc |-> m.out.doc]
    /\ decoded' = Unused
    /\ UNCHANGED <<ctrlPt, heap, mk, prevMk, call, err, rep, nRebuilds, firstDoc, file,
                   swapFlag, res, nSwaps, inputs, resA, resB>>

\* The JSON text last produced is parsed with the decoder of the matching
\* markup class; the markups it returns are kept as what a reader sees.
RepDecode ==
    /\ out.kind = "json"
    /\ decoded = Unused
    /\ \E d \in {decoder(MarkupClassOf(rep.kind), heap, out.doc)} :
           decoded' = [kind |-> "decoded", err |-> d.err,
                       markups |-> DocView(d.heap, d.markups)]
    /\ UNCHANGED <<ctrlPt, heap, mk, prevMk, call, err, rep, nRebuilds, firstDoc, out,
                   file, swapFlag, res, nSwaps, inputs, resA, resB>>

\* write(filename), whatever the file system does; err is the exception the
\* handler caught
RepWrite ==
    /\ nRebuilds < MaxRebuilds
    /\ \E io \in {"ok", "fails", "full", "truncated"} :
       \E w \in {write(heap, rep, io, file.content)} :
           /\ heap' = w.heap
           /\ file' = PathHolding(w.written)
           /\ rep' = [rep EXCEPT !.markups = w.markups]
           /\ err' = w.caught
           /\ nRebuilds' = IF w.rebuilt THEN nRebuilds + 1 ELSE nRebuilds
           /\ firstDoc' = IF w.rebuilt /\ nRebuilds = 0
                          THEN [err |-> w.rebuild,
                                doc |-> DocView(w.heap, w.markups)]
                          ELSE firstDoc
           /\ out' = IF w.caught # "none"
                     THEN [kind |-> "reported", from |-> "write",
                           err |-> w.err, caught |-> w.caught,
                           message |-> w.message, io |-> io,
                           written |-> w.written]
                     ELSE [kind |-> "json", from |-> "write", err |-> w.err,
                           caught |-> "none", message |-> w.message,
                           io |-> io, doc |-> w.written[1].doc]
    /\ decoded' = Unused
    /\ UNCHANGED <<ctrlPt, mk, prevMk, call, swapFlag, res, nSwaps,
                   inputs, resA, resB>>

\* The class's write_from on the literal arrays of the raw geometry and the
\* path write is given; the file is all it changes.
RepWriteFrom ==
    /\ rep.kind \in {"Point", "Line"}
    /\ \E io \in {"ok", "fails", "full", "truncated"} :
       \E w \in {write_from(rep.kind, RawValues(heap, rep), io, file.content)} :
           file' = PathHolding(w.written)
    /\ UNCHANGED <<ctrlPt, heap, mk, prevMk, call, err, rep, nRebuilds, firstDoc,
                   out, decoded, swapFlag, res, nSwaps, inputs, resA, resB>>

NextRep ==
    \/ RepRebuild \/ RepPrint \/ RepWrite \/ RepWriteFrom
    \/ RepMakeFrom \/ RepDecode

SpecRep == InitRep /\ [][NextRep]_vars

(***************************************************************************)
(* SpecFile: convert_file on one file, then coordinate swaps of the        *)
(* representable it returned.                                              *)
(***************************************************************************)
\* The types an entry of a file may carry: the four the program knows and
\* one it does not.
EntryTypes == {POINT_MARKUP_TYPE, LINE_MARKUP_TYPE, CURVE_MARKUP_TYPE,
               CLOSED_CURVE_MARKUP_TYPE, "Angle"}

\* The j-th control point of the k-th markup of a file: chosen so that the
\* points of a file differ from each other and the first markup starts with
\* (0,0,0), (1,0,0).
PosOf(k, j) == <<j - 1, k - 1, k - 1>>

FileOf(shape, keyOrder) ==
    [keyOrder |-> keyOrder,
     json |-> [markups |-> [k \in 1..Len(shape) |->
                  [type |-> shape[k].type,
                   controlPoints |-> [j \in 1..shape[k].n |->
                       [id |-> j, position |-> PosOf(k, j)]]]]]]

Files ==
    { FileOf(shape, keyOrder) :
        shape \in SeqsOf([type : EntryTypes, n : 0..MaxLen], 0, MaxMarkups),
        keyOrder \in {"schema", "sorted"} }

FileUnused ==
    /\ ctrlPt = Unused
    /\ mk = Unused /\ prevMk = Unused /\ call = Unused
    /\ rep = Unused /\ nRebuilds = 0 /\ firstDoc = Unused /\ out = Unused
    /\ decoded = Unused /\ inputs = Unused /\ resA = Unused /\ resB = Unused

InitFile ==
    /\ file \in Files
    /\ swapFlag \in BOOLEAN
    /\ heap = <<>>
    /\ res = Unused
    /\ nSwaps = 0
    /\ err = "none"
    /\ FileUnused

\* convert_file(filename, swap_coordinate_system)
FileConvert ==
    /\ res = Unused
    /\ \E c \in {convert_file(heap, file, swapFlag)} :
         /\ heap' = c.heap
         /\ err' = c.err
         /\ res' = [c EXCEPT !.heap = <<>>]
    /\ UNCHANGED <<ctrlPt, mk, prevMk, call, rep, nRebuilds, firstDoc, out, decoded,
                   file, swapFlag, nSwaps, inputs, resA, resB>>

NextFile == FileConvert

SpecFile == InitFile /\ [][NextFile]_vars

(***************************************************************************)
(* SpecConcat: concatenate on freshly made point representables, and the   *)
(* two ways of concatenating files.                                        *)
(***************************************************************************)
\* The files handed to concatenate_files: one markup each, written in the
\* schema's key order.
ListedFiles ==
    { FileOf(<<sh>>, "schema") :
        sh \in [type : EntryTypes \ {"Angle"}, n : 0..MaxPts] }

\* The concrete classes of the point representables handed to concatenate:
\* the one convert and concatenate return, and another subclass of
\* Slic3rPointRepresentable.
PointClasses == {ImplementationClass("Point"), <<"Other", "Point", "Implementation">>}

\* Representables of the given variants, freshly constructed, the k-th
\* with two points of its own as raw geometry: two points, one line or one
\* curve.
VariantPoints(K) == [k \in 1..Len(K) |-> <<PosOf(k, 1), PosOf(k, 2)>>]

VariantRep(K, k) ==
    [kind |-> K[k], cls |-> ImplementationClass(K[k]), markups |-> <<>>,
     raw |-> IF K[k] = "Point" THEN RefsOf(VariantPoints(K))[k]
             ELSE <<RefsOf(VariantPoints(K))[k]>>]

\* The documents of the arguments after a call, by value.
InputsView(c) ==
    [kind |-> "inputs",
     docs |-> [k \in 1..Len(c.reps) |-> DocView(c.heap, c.reps[k].markups)]]

\* What a call returned, by value.
ResultView(c) ==
    [kind |-> "result", err |-> c.err,
     points |-> IF c.err # "none" THEN <<>> ELSE RawValues(c.heap, c.rep)]

ConcatUnused ==
    /\ ctrlPt = Unused
    /\ mk = Unused /\ prevMk = Unused /\ call = Unused
    /\ rep = Unused /\ nRebuilds = 0 /\ firstDoc = Unused /\ out = Unused
    /\ decoded = Unused /\ file = Unused /\ res = Unused /\ nSwaps = 0

InitConcat ==
    /\ \/ \E G \in SeqsOf(PointGeometries, 0, MaxFiles) :
          \E C \in [1..Len(G) -> PointClasses] :
            /\ inputs = [kind |-> "representables", points |-> G,
                         reps |-> [k \in 1..Len(G) |->
                                      [kind |-> "Point", cls |-> C[k],
                                       markups |-> <<>>,
                                       raw |-> RefsOf(G)[k]]]]
            /\ heap = Flatten(G)
            /\ swapFlag = FALSE
       \/ \E K \in SeqsOf({"Point", "Line", "Curve"}, 0, MaxFiles) :
            /\ inputs = [kind |-> "variants", points |-> VariantPoints(K),
                         reps |-> [k \in 1..Len(K) |-> VariantRep(K, k)]]
            /\ heap = Flatten(VariantPoints(K))
            /\ swapFlag = FALSE
       \/ \E F \in SeqsOf(ListedFiles, 0, MaxFiles) :
            /\ inputs = [kind |-> "files", files |-> F]
            /\ heap = <<>>
            /\ swapFlag \in BOOLEAN
    /\ resA = Unused
    /\ resB = Unused
    /\ err = "none"
    /\ ConcatUnused

\* concatenate(*representables)
Concatenate ==
    /\ inputs.kind \in {"representables", "variants"}
    /\ resA = Unused
    /\ \E c \in {concatenate(heap, inputs.reps)} :
         /\ heap' = c.heap
         /\ err' = c.err
         /\ resA' = ResultView(c)
         /\ resB' = InputsView(c)
    /\ UNCHANGED <<ctrlPt, mk, prevMk, call, rep, nRebuilds, firstDoc, out, decoded,
                   file, swapFlag, res, nSwaps, inputs>>

\* concatenate_files(*filenames, swap_coordinate_system=swapFlag)
ConcatenateFiles ==
    /\ inputs.kind = "files"
    /\ resA = Unused
    /\ \E c \in {concatenate_files(heap, inputs.files, swapFlag)} :
         /\ heap' = c.heap
         /\ err' = c.err
         /\ resA' = ResultView(c)
    /\ UNCHANGED <<ctrlPt, mk, prevMk, call, rep, nRebuilds, firstDoc, out, decoded,
                   file, swapFlag, res, nSwaps, inputs, resB>>

\* concatenate(*[convert_file(f, swapFlag) for f in filenames])
ConcatenateConverted ==
    /\ inputs.kind = "files"
    /\ resB = Unused
    /\ \E c \in {concatenate_converted(heap, inputs.files, swapFlag)} :
         /\ heap' = c.heap
         /\ err' = c.err
         /\ resB' = ResultView(c)
    /\ UNCHANGED <<ctrlPt, mk, prevMk, call, rep, nRebuilds, firstDoc, out, decoded,
                   file, swapFlag, res, nSwaps, inputs, resA>>

NextConcat == Concatenate \/ ConcatenateFiles \/ ConcatenateConverted

SpecConcat == InitConcat /\ [][NextConcat]_vars

(***************************************************************************)
(* SpecDecode: the decoder of each markup class on parsed documents.       *)
(***************************************************************************)
DecodeUnused ==
    /\ ctrlPt = Unused
    /\ mk = Unused /\ prevMk = Unused /\ call = Unused
    /\ rep = Unused /\ nRebuilds = 0 /\ firstDoc = Unused /\ out = Unused
    /\ swapFlag = FALSE /\ res = Unused /\ nSwaps = 0
    /\ inputs = Unused /\ resA = Unused /\ resB = Unused

InitDecode ==
    /\ file \in { f \in Files : f.keyOrder = "schema" }
    /\ heap = <<>>
    /\ decoded = Unused
    /\ err = "none"
    /\ DecodeUnused

\* cls.decoder(json_dict) on the parsed file
DecodeDocument ==
    /\ decoded = Unused
    /\ \E cls \in Classes :
       \E d \in {decoder(cls, heap, file.json)} :
           /\ heap' = d.heap
           /\ err' = d.err
           /\ decoded' = [kind |-> "decoded", cls |-> cls, err |-> d.err,
                          markups |-> DocView(d.heap, d.markups)]
    /\ UNCHANGED <<ctrlPt, mk, prevMk, call, rep, nRebuilds, firstDoc, out, file,
                   swapFlag, res, nSwaps, inputs, resA, resB>>

NextDecode == DecodeDocument

SpecDecode == InitDecode /\ [][NextDecode]_vars

(***************************************************************************)
(* SpecPoint: one control point constructed on its own and moved, next to  *)
(* a Line markup, the class on which both add and index-assign can         *)
(* succeed.                                                                *)
(***************************************************************************)
InitPoint ==
    /\ heap = <<>>
    /\ mk = markup_factory("LineMarkup")
    /\ ctrlPt = Unused
    /\ prevMk = MarkupView(heap, mk)
    /\ call = [op |-> "none"]
    /\ err = "none"
    /\ rep = Unused /\ nRebuilds = 0 /\ firstDoc = Unused /\ out = Unused
    /\ decoded = Unused /\ file = Unused /\ swapFlag = FALSE /\ res = Unused
    /\ nSwaps = 0 /\ inputs = Unused /\ resA = Unused /\ resB = Unused

\* ControlPoint(1, "P")
PointConstruct ==
    /\ ctrlPt = Unused
    /\ \E c \in {ControlPoint(heap, 1, <<"P">>)} :
         /\ heap' = c.heap
         /\ ctrlPt' = c.point
    /\ call' = [op |-> "ControlPoint"]
    /\ err' = "none"
    /\ UNCHANGED <<mk, prevMk, rep, nRebuilds, firstDoc, out, decoded, file,
                   swapFlag, res, nSwaps, inputs, resA, resB>>

\* ControlPoint.make_control_point(1, "P", *p)
PointMakeControlPoint ==
    /\ ctrlPt = Unused
    /\ \E p \in Pts :
       \E c \in {make_control_point(heap, 1, <<"P">>, p[1], p[2], p[3])} :
         /\ heap' = c.heap
         /\ ctrlPt' = c.point
    /\ call' = [op |-> "make_control_point"]
    /\ err' = "none"
    /\ UNCHANGED <<mk, prevMk, rep, nRebuilds, firstDoc, out, decoded, file,
                   swapFlag, res, nSwaps, inputs, resA, resB>>

\* point.set_position(*p)
PointSetPosition ==
    /\ ctrlPt # Unused
    /\ \E p \in Pts :
       \E c \in {set_position(heap, ctrlPt, p[1], p[2], p[3])} :
         /\ heap' = c.heap
         /\ ctrlPt' = c.point
    /\ call' = [op |-> "set_position"]
    /\ err' = "none"
    /\ UNCHANGED <<mk, prevMk, rep, nRebuilds, firstDoc, out, decoded, file,
                   swapFlag, res, nSwaps, inputs, resA, resB>>

NextPoint ==
    \/ PointConstruct
    \/ PointMakeControlPoint
    \/ PointSetPosition
    \/ MarkupAdd
    \/ MarkupSetItem

SpecPoint == InitPoint /\ [][NextPoint]_vars

(***************************************************************************)
(* SpecShare: a representable is rebuilt and converted; afterwards control *)
(* points of its document are moved and the result is swapped.             *)
(***************************************************************************)
InitShare == InitRep /\ rep.kind \in {"Point", "Line"}

\* rebuild_markups on the source, before the conversion
ShareRebuild == res = Unused /\ RepRebuild

\* result = convert(rep); out keeps what the result's points read at return.
ShareConvert ==
    /\ res = Unused
    /\ \E c \in {convert(rep)} :
         /\ res' = [kind |-> "converted", rep |-> c]
         /\ out' = [kind |-> "snapshot", from |-> "convert", err |-> "none",
                    points |-> RawValues(heap, c)]
    /\ call' = [kind |-> "call", op |-> "convert"]
    /\ UNCHANGED <<heap, mk, ctrlPt, prevMk, err, rep, nRebuilds, firstDoc,
                   decoded, file, swapFlag, nSwaps, inputs, resA, resB>>

\* rep.mrk_obj.markups[k][j].set_position(*p), right after the conversion or
\* the swap
ShareSetPosition ==
    /\ res # Unused
    /\ call.op \in {"convert", "swap"}
    /\ \E k \in 1..Len(rep.markups) :
       \E j \in 1..Len(rep.markups[k].controlPoints) :
       \E p \in Pts :
       \E c \in {set_position(heap, rep.markups[k].controlPoints[j],
                              p[1], p[2], p[3])} :
         /\ heap' = c.heap
         /\ rep' = [rep EXCEPT !.markups[k].controlPoints[j] = c.point]
    /\ call' = [kind |-> "call", op |-> "set_position"]
    /\ UNCHANGED <<mk, ctrlPt, prevMk, err, nRebuilds, firstDoc, out, decoded,
                   file, swapFlag, res, nSwaps, inputs, resA, resB>>

\* rep.mrk_obj.markups[k][i] = p, right after the conversion or the swap
ShareSetItem ==
    /\ res # Unused
    /\ call.op \in {"convert", "swap"}
    /\ \E k \in 1..Len(rep.markups) :
       \E i \in 1..(Len(rep.markups[k].controlPoints) + 1) :
       \E p \in Pts :
       \E r \in {setitem(heap, rep.markups[k], i, p)} :
         /\ heap' = r.heap
         /\ rep' = [rep EXCEPT !.markups[k] = r.markup]
         /\ call' = [kind |-> "call", op |-> "setitem", err |-> r.err]
    /\ UNCHANGED <<mk, ctrlPt, prevMk, err, nRebuilds, firstDoc, out, decoded,
                   file, swapFlag, res, nSwaps, inputs, resA, resB>>

\* result.swap_coordinate_system()
ShareSwap ==
    /\ res # Unused
    /\ nSwaps = 0
    /\ \E w \in {swap_coordinate_system(heap, res.rep)} :
         /\ heap' = w.heap
         /\ res' = [res EXCEPT !.rep = w.rep]
         /\ call' = [kind |-> "call", op |-> "swap", err |-> w.err]
    /\ nSwaps' = nSwaps + 1
    /\ UNCHANGED <<mk, ctrlPt, prevMk, err, rep, nRebuilds, firstDoc, out,
                   decoded, file, swapFlag, inputs, resA, resB>>

NextShare ==
    \/ ShareRebuild
    \/ ShareConvert
    \/ ShareSetPosition
    \/ ShareSetItem
    \/ ShareSwap

SpecShare == InitShare /\ [][NextShare]_vars

(***************************************************************************)
(* Claims about the markup object (Spec).                                  *)
(***************************************************************************)
\* C1: capacity.  A Line markup never holds more than 2 control points; an
\* add on a Line markup that holds 2 raises AssertionError and leaves the
\* markup as it was; an add on a Point or Curve markup never fails, whatever
\* its length, and appends one control point.
C1_Capacity ==
    /\ mk.cls = "LineMarkup" => Len(mk.controlPoints) <= 2
    /\ (call.op = "add" /\ mk.cls = "LineMarkup"
            /\ Len(prevMk.controlPoints) = 2)
         => (err = "AssertionError" /\ MarkupView(heap, mk) = prevMk)
    /\ (call.op = "add" /\ mk.cls \in {"PointMarkup", "CurveMarkup"})
         => (err = "none"
             /\ Len(mk.controlPoints) = Len(prevMk.controlPoints) + 1)

\* The third add on a Line markup has been refused.
C1_Witness ==
    /\ call.op = "add" /\ mk.cls = "LineMarkup"
    /\ Len(prevMk.controlPoints) = 2 /\ err = "AssertionError"

\* C2: control-point ids are 1-based and contiguous.  The control point at
\* 0-based position k has id k+1 (so no id occurs twice), and a successful add
\* on a markup holding n control points appends one with id n+1 and leaves
\* the others as they were.
C2_IdsContiguous ==
    /\ \A k \in 1..Len(mk.controlPoints) : mk.controlPoints[k].id = k
    /\ \A j, k \in 1..Len(mk.controlPoints) :
           mk.controlPoints[j].id = mk.controlPoints[k].id => j = k
    /\ (call.op = "add" /\ err = "none")
         => LET n == Len(prevMk.controlPoints)
            IN  /\ Len(mk.controlPoints) = n + 1
                /\ mk.controlPoints[n + 1].id = n + 1
                /\ SubSeq(MarkupView(heap, mk).controlPoints, 1, n)
                       = prevMk.controlPoints

\* A third control point has been added to a markup.
C2_Witness ==
    /\ call.op = "add" /\ err = "none" /\ Len(mk.controlPoints) = 3
    /\ mk.controlPoints[3].id = 3

(***************************************************************************)
(* Claims about a representable (SpecRep).                                 *)
(***************************************************************************)
\* What the round trip must keep of a document: the markup types and, per
\* markup, the positions in order.
TypesOf(doc) == [k \in 1..Len(doc) |-> doc[k].type]
PositionsOf(doc) ==
    [k \in 1..Len(doc) |->
        [j \in 1..Len(doc[k].controlPoints) |-> doc[k].controlPoints[j].position]]

\* C3 as claimed: Point make_from returns "" for an empty list and otherwise
\* a document with one Fiducial markup holding len(P) control points, the
\* i-th (0-based) at P[i] and labelled "P_{i+1}".
C3_MakeFromAsClaimed ==
    (out.from = "make_from" /\ rep.kind = "Point")
      => /\ out.err = "none"
         /\ Len(inputs) = 0 => out.kind = "empty"
         /\ Len(inputs) > 0 =>
              /\ out.kind = "json"
              /\ Len(out.doc.markups) = 1
              /\ out.doc.markups[1].type = POINT_MARKUP_TYPE
              /\ Len(out.doc.markups[1].controlPoints) = Len(inputs)
              /\ \A i \in 1..Len(inputs) :
                    /\ out.doc.markups[1].controlPoints[i].position = inputs[i]
                    /\ out.doc.markups[1].controlPoints[i].label
                           = <<"P", "_">> \o ToStr(i)

\* C3 as amended: the same, except that the label of the i-th (0-based)
\* control point is "P_{i+1}-" followed by the control point's id
\* (make_control_point appends "-<id>" to the label it is given).
C3_MakeFrom ==
    (out.from = "make_from" /\ rep.kind = "Point")
      => /\ out.err = "none"
         /\ Len(inputs) = 0 => out.kind = "empty"
         /\ Len(inputs) > 0 =>
              /\ out.kind = "json"
              /\ Len(out.doc.markups) = 1
              /\ out.doc.markups[1].type = POINT_MARKUP_TYPE
              /\ Len(out.doc.markups[1].controlPoints) = Len(inputs)
              /\ \A i \in 1..Len(inputs) :
                    /\ out.doc.markups[1].controlPoints[i].position = inputs[i]
                    /\ out.doc.markups[1].controlPoints[i].label
                           = <<"P", "_">> \o ToStr(i) \o <<"-">>
                               \o ToStr(out.doc.markups[1].controlPoints[i].id)

\* make_from has been applied to two different points.
C3_Witness ==
    /\ out.from = "make_from" /\ rep.kind = "Point" /\ out.kind = "json"
    /\ Len(inputs) = 2 /\ inputs[1] # inputs[2]
    /\ Len(out.doc.markups[1].controlPoints) = 2

\* C4: rebuild_markups is idempotent and replaces the document.  For a Point
\* or Line representable, after any number k >= 1 of rebuilds the document
\* reads as it did after the first one, the outcome of the rebuild is the
\* same, the raw geometry is as it was at construction, and the markup list
\* has not grown: one markup for Point, one per line for Line.  (err reads
\* "OSError" after a write whose file could not be opened or written; that
\* is no outcome of a rebuild.)
C4_RebuildIdempotent ==
    (nRebuilds >= 1 /\ rep.kind \in {"Point", "Line"})
      => /\ DocView(heap, rep.markups) = firstDoc.doc
         /\ err # "OSError" => err = firstDoc.err
         /\ RawValues(heap, rep) = inputs
         /\ rep.kind = "Point" =>
               /\ firstDoc.err = "none"
               /\ err \in {"none", "OSError"}
               /\ Len(rep.markups) = 1
               /\ Len(rep.markups[1].controlPoints) = Len(inputs)
         /\ rep.kind = "Line" => Len(rep.markups) = Len(inputs)

\* A representable of two lines, and one of two points, rebuilt twice.
C4_Witness ==
    /\ nRebuilds = 2 /\ err = "none" /\ Len(inputs) = 2
    /\ Len(rep.markups) = IF rep.kind = "Line" THEN 2 ELSE 1
    /\ rep.kind = "Line"

\* C5: round trip.  Decoding the JSON a representable produced (by print or
\* by make_from) with the decoder of the matching markup class succeeds and
\* gives the same sequence of markup types and, per markup, the same
\* positions in the same order, as the JSON holds and as the document that
\* was printed holds.
C5_RoundTrip ==
    decoded # Unused
      => /\ decoded.err = "none"
         /\ TypesOf(decoded.markups) = TypesOf(out.doc.markups)
         /\ PositionsOf(decoded.markups) = PositionsOf(out.doc.markups)
         /\ out.from = "print" =>
               /\ TypesOf(decoded.markups) = TypesOf(DocView(heap, rep.markups))
               /\ PositionsOf(decoded.markups)
                      = PositionsOf(DocView(heap, rep.markups))

\* The printed document of two lines has been decoded.
C5_Witness ==
    /\ decoded # Unused /\ out.from = "print" /\ rep.kind = "Line"
    /\ Len(decoded.markups) = 2
    /\ Len(decoded.markups[2].controlPoints) = 2

(***************************************************************************)
(* Claims about convert_file (SpecFile).                                   *)
(***************************************************************************)
\* The positions a file holds, markups outer, control points inner.
FlatPositions(f) ==
    Flatten([k \in 1..Len(f.json.markups) |->
                [j \in 1..Len(f.json.markups[k].controlPoints) |->
                    f.json.markups[k].controlPoints[j].position]])

\* The file's content contains the literal substring "type": "<T>",
HasMarker(f, T) == Occurs(<<QTYPE, T, QCOMMA>>, Text(f))

\* The type a literal-substring scan in the order Point, Line,
\* Curve/ClosedCurve arrives at.
MarkerType(f) ==
    IF HasMarker(f, POINT_MARKUP_TYPE) THEN "Point"
    ELSE IF HasMarker(f, LINE_MARKUP_TYPE) THEN "Line"
    ELSE IF HasMarker(f, CURVE_MARKUP_TYPE)
            \/ HasMarker(f, CLOSED_CURVE_MARKUP_TYPE) THEN "Curve"
    ELSE "none"

\* A file of one markup type, written in the schema's key order, every
\* entry within the capacity of its variant.
FitsClass(f, cls) ==
    \A k \in 1..Len(f.json.markups) :
        /\ f.json.markups[k].type \in types(cls)
        /\ \/ capacity(markup_factory(cls)) = None
           \/ Len(f.json.markups[k].controlPoints)
                <= capacity(markup_factory(cls))[1]

WellFormed(f) ==
    /\ f.keyOrder = "schema"
    /\ f.json.markups # <<>>
    /\ \E cls \in Classes : FitsClass(f, cls)

SwapOf(p) == <<-p[1], -p[2], p[3]>>
SwapAll(ps) == [k \in 1..Len(ps) |-> SwapOf(ps[k])]

LineExample == FileOf(<<[type |-> LINE_MARKUP_TYPE, n |-> 2]>>, "schema")

\* C6: convert_file treats a file as Point if its content contains the
\* literal substring "type": "Fiducial", and otherwise as Line if it
\* contains "type": "Line", and otherwise as Curve if it contains
\* "type": "Curve", or "type": "ClosedCurve", ; a file with none of these
\* substrings fails with NotImplementedError and nothing is parsed.
C6_DetectionAsClaimed ==
    res # Unused =>
        /\ res.detected = MarkerType(file)
        /\ MarkerType(file) = "none" =>
               (res.err = "NotImplementedError" /\ ~res.parsed)

\* A file whose only entry has "type": "Curve" as the last key of the
\* object, so that no comma follows it, holds none of the four substrings
\* and is taken for a Curve file all the same: convert_file goes on to read
\* and raises AttributeError there, not NotImplementedError.
C6_Divergence ==
    /\ res # Unused
    /\ file = FileOf(<<[type |-> CURVE_MARKUP_TYPE, n |-> 1]>>, "sorted")
    /\ MarkerType(file) = "none"
    /\ res.detected = "Curve"
    /\ res.err = "AttributeError"

\* C7: without swap, convert_file returns for every well-formed file of one
\* recognized type, and the representable it returns holds exactly the
\* control-point positions of the file's markups, markups outer and control
\* points inner, none dropped, duplicated or reordered.
C7_FlatteningAsClaimed ==
    (res # Unused /\ ~swapFlag) =>
        /\ WellFormed(file) => res.err = "none"
        /\ res.err = "none" =>
               RawValues(heap, res.rep) = FlatPositions(file)

\* convert_file on the file with one Line markup with points (0,0,0),
\* (1,0,0) has recognized a Line file and raised AttributeError at read
\* instead of returning the two points.
C7_Divergence ==
    /\ res # Unused /\ ~swapFlag
    /\ file = LineExample
    /\ WellFormed(file)
    /\ res.detected = "Line"
    /\ res.err = "AttributeError"
    /\ ~res.parsed

\* C8: convert_file with swap succeeds for every well-formed Point, Line
\* and Curve file and returns the file's points with (x,y,z) mapped to
\* (-x,-y,z), count and order kept.  (The claim's second half, the swap
\* applied twice to a point representable, has no case here: convert_file
\* returns no representable to apply it to.)
C8_SwapAsClaimed ==
    (res # Unused /\ swapFlag /\ WellFormed(file)) =>
        /\ res.err = "none"
        /\ RawValues(heap, res.rep) = SwapAll(FlatPositions(file))

\* convert_file with swap on the Line file with points (0,0,0), (1,0,0)
\* raised AttributeError instead of returning (0,0,0), (-1,0,0).
C8_Divergence ==
    /\ res # Unused /\ swapFlag
    /\ file = LineExample
    /\ WellFormed(file)
    /\ res.err = "AttributeError"

(***************************************************************************)
(* Claims about concatenation (SpecConcat).                                *)
(***************************************************************************)
\* C9: for every non-empty list of well-formed files, concatenate_files with
\* swap and concatenate over convert_file with swap of each file both
\* succeed and return the same point sequence.
C9_PatternsAgreeAsClaimed ==
    (/\ inputs.kind = "files" /\ swapFlag
     /\ resA # Unused /\ resB # Unused
     /\ inputs.files # <<>>
     /\ \A k \in 1..Len(inputs.files) : WellFormed(inputs.files[k])) =>
        /\ resA.err = "none"
        /\ resB.err = "none"
        /\ resA.points = resB.points

\* Both patterns raised AttributeError on the single Line file with points
\* (0,0,0), (1,0,0).
C9_Divergence ==
    /\ inputs.kind = "files" /\ swapFlag
    /\ inputs.files = <<LineExample>>
    /\ resA # Unused /\ resB # Unused
    /\ resA.err = "AttributeError"
    /\ resB.err = "AttributeError"

\* C10: concatenate of one or more point representables returns a
\* representable whose points are the inputs' point sequences one after the
\* other in argument order, nothing dropped and no duplicate removed.
C10_ConcatenateAsClaimed ==
    (inputs.kind = "representables" /\ resA # Unused
     /\ Len(inputs.points) > 0) =>
        /\ resA.err = "none"
        /\ resA.points = Flatten(inputs.points)

\* concatenate(a, b) on two point representables of different concrete
\* classes, a with the points (1,2,3), (1,2,3) and b with (0,0,0), (1,2,3),
\* has raised AssertionError and returned no points.
C10_Divergence ==
    /\ inputs.kind = "representables" /\ resA # Unused
    /\ inputs.points = << << <<1, 2, 3>>, <<1, 2, 3>> >>,
                          << <<0, 0, 0>>, <<1, 2, 3>> >> >>
    /\ inputs.reps[1].kind = "Point" /\ inputs.reps[2].kind = "Point"
    /\ inputs.reps[1].cls # inputs.reps[2].cls
    /\ resA.err = "AssertionError"
    /\ resA.points = <<>>

\* C11: concatenate on representables of different variants raises the
\* type-mismatch error (AssertionError) before any work: no points are
\* returned, no argument's document has been rebuilt or changed, and nothing
\* on the heap has been touched.
C11_MismatchBeforeWork ==
    (/\ inputs.kind = "variants" /\ resA # Unused
     /\ \E k \in 1..Len(inputs.reps) :
            inputs.reps[k].kind # inputs.reps[1].kind) =>
        /\ resA.err = "AssertionError"
        /\ resA.points = <<>>
        /\ resB.docs = [k \in 1..Len(inputs.reps) |->
                           DocView(heap, inputs.reps[k].markups)]
        /\ heap = Flatten(inputs.points)

\* concatenate has been called on one Line and one Curve representable and
\* has raised.
C11_Witness ==
    /\ inputs.kind = "variants" /\ resA # Unused
    /\ Len(inputs.reps) = 2
    /\ inputs.reps[1].kind = "Line" /\ inputs.reps[2].kind = "Curve"
    /\ resA.err = "AssertionError"
    /\ resB.docs = <<<<>>, <<>>>>

(***************************************************************************)
(* Claims about write, decode, index-assign, positionStatus, sharing and   *)
(* the two construction paths.                                             *)
(***************************************************************************)
\* C12: write answers a failure to open or write the file with a message and
\* returns without raising, and every other error arising during write,
\* such as one raised by the rebuild, reaches the caller.
C12_WriteAsClaimed ==
    out.from = "write" =>
        /\ out.caught = "OSError" => (out.err = "none" /\ out.message)
        /\ out.caught \notin {"none", "OSError"} => out.err = out.caught

\* write on a Line representable one of whose lines has a single point: the
\* rebuild raised ValueError, write printed its message and returned.
C12_Divergence ==
    /\ out.from = "write" /\ out.io = "ok"
    /\ rep.kind = "Line"
    /\ out.caught = "ValueError"
    /\ out.err = "none"
    /\ out.message

\* The entries of the file's document, and whether each is of a type the
\* class accepts and within the class's capacity.
Entries == file.json.markups

TypesAccepted(cls) ==
    \A k \in 1..Len(Entries) : Entries[k].type \in types(cls)

WithinCapacity(cls) ==
    \A k \in 1..Len(Entries) :
        \/ capacity(markup_factory(cls)) = None
        \/ Len(Entries[k].controlPoints) <= capacity(markup_factory(cls))[1]

\* One markup of the class per entry in entry order, one control point per
\* entry control point in order, at the position given.
DecodedAsGiven(cls) ==
    /\ decoded.err = "none"
    /\ Len(decoded.markups) = Len(Entries)
    /\ \A k \in 1..Len(Entries) :
           decoded.markups[k].type = markup_factory(cls).type
    /\ PositionsOf(decoded.markups) = PositionsOf(Entries)

\* C13 as claimed: decode fails with the unrecognized-type error if an entry
\* has a type the class does not accept, and otherwise returns one markup
\* per entry with the entry's control points.
C13_DecodeAsClaimed ==
    decoded # Unused =>
        IF ~TypesAccepted(decoded.cls) THEN decoded.err = "AssertionError"
        ELSE DecodedAsGiven(decoded.cls)

\* C13: decode fails with AssertionError if an entry has a type the class
\* does not accept or more control points than the class's capacity (a Line
\* entry with more than two), and otherwise returns one markup of the class
\* per entry in entry order, each with one control point per entry control
\* point in order, at the position given.
C13_Decode ==
    decoded # Unused =>
        IF ~TypesAccepted(decoded.cls) \/ ~WithinCapacity(decoded.cls)
        THEN decoded.err = "AssertionError"
        ELSE DecodedAsGiven(decoded.cls)

\* A document with a Curve and a ClosedCurve entry of two points each has
\* been decoded by CurveMarkup's decoder.
C13_Witness ==
    /\ decoded # Unused /\ decoded.cls = "CurveMarkup"
    /\ Len(Entries) = 2
    /\ Entries[1].type = CURVE_MARKUP_TYPE
    /\ Entries[2].type = CLOSED_CURVE_MARKUP_TYPE
    /\ decoded.err = "none"
    /\ PositionsOf(decoded.markups)
         = << <<PosOf(1, 1), PosOf(1, 2)>>, <<PosOf(2, 1), PosOf(2, 2)>> >>

\* C14 as claimed: item[i] = p succeeds exactly when 0 < i, i <= capacity
\* (no bound without a capacity) and i <= len + 1, and raises the
\* precondition violation otherwise, leaving the markup as it was; for
\* i = len + 1 it appends a control point with id len + 1 at p; for i <= len
\* it moves control point i to p and changes no other control point; in
\* both cases lastUsedControlPointNumber becomes i.
SetItemValid ==
    /\ 0 < call.id
    /\ capacity(mk) = None \/ call.id <= capacity(mk)[1]
    /\ call.id <= Len(prevMk.controlPoints) + 1

SetItemEffect ==
    /\ err = "none"
    /\ mk.lastUsedControlPointNumber = call.id
    /\ Len(mk.controlPoints)
         = IF call.id = Len(prevMk.controlPoints) + 1
           THEN Len(prevMk.controlPoints) + 1 ELSE Len(prevMk.controlPoints)
    /\ MarkupView(heap, mk).controlPoints[call.id].position = call.point
    /\ mk.controlPoints[call.id].id = call.id
    /\ \A k \in 1..Len(prevMk.controlPoints) :
           k # call.id =>
               MarkupView(heap, mk).controlPoints[k] = prevMk.controlPoints[k]

C14_SetItemAsClaimed ==
    call.op = "setitem" =>
        IF SetItemValid THEN SetItemEffect
        ELSE err = "AssertionError" /\ MarkupView(heap, mk) = prevMk

\* item[2] = p on a Line markup with one control point raised
\* AssertionError and added nothing.
C14_Divergence ==
    /\ call.op = "setitem" /\ call.id = 2
    /\ mk.cls = "LineMarkup"
    /\ Len(prevMk.controlPoints) = 1
    /\ err = "AssertionError"
    /\ MarkupView(heap, mk) = prevMk

\* The control points of the state: those of the markup and the one apart.
AllDefined(m) ==
    \A k \in 1..Len(m.controlPoints) :
        m.controlPoints[k].positionStatus = STATUS_DEFINED

\* C15: positionStatus is monotone.  A control point that was constructed
\* and not yet moved is "undefined"; set_position and make_control_point
\* leave it "defined"; every control point of a markup, all made by add, is
\* "defined"; and no step takes a "defined" control point back.
C15_StatusMonotone ==
    /\ [](/\ AllDefined(mk)
          /\ (ctrlPt # Unused /\ call.op = "ControlPoint")
                => ctrlPt.positionStatus = STATUS_UNDEFINED
          /\ (ctrlPt # Unused /\ call.op \in {"set_position",
                                              "make_control_point"})
                => ctrlPt.positionStatus = STATUS_DEFINED)
    /\ [][/\ (ctrlPt # Unused /\ ctrlPt.positionStatus = STATUS_DEFINED)
               => (ctrlPt' # Unused
                   /\ ctrlPt'.positionStatus = STATUS_DEFINED)
          /\ (ctrlPt # Unused /\ ctrlPt.positionStatus = STATUS_UNDEFINED
              /\ ctrlPt'.positionStatus = STATUS_DEFINED)
               => call'.op = "set_position"
          /\ Len(mk'.controlPoints) >= Len(mk.controlPoints)
          /\ AllDefined(mk')]_vars

\* The control point apart was constructed undefined and has since been
\* moved twice, next to a markup of two control points one of which was
\* overwritten by index-assign.
C15_Witness ==
    /\ ctrlPt # Unused
    /\ ctrlPt.positionStatus = STATUS_DEFINED
    /\ ctrlPt.label = <<"P">>
    /\ call.op = "setitem" /\ err = "none"
    /\ Len(mk.controlPoints) = 2
    /\ AllDefined(mk)

\* C16 as claimed: the result of convert shares nothing with its source.
\* Once the result exists, no step other than a swap of the result changes
\* the points the result holds, in particular no set_position and no
\* index-assign on a control point of the source's document; and a swap of
\* the result changes no position in the source's document.
C16_NoSharingAsClaimed ==
    [][/\ (res # Unused /\ nSwaps' = nSwaps)
            => RawValues(heap', res'.rep) = RawValues(heap, res.rep)
       /\ (res # Unused /\ nSwaps' # nSwaps)
            => DocView(heap', rep'.markups) = DocView(heap, rep.markups)]_vars

\* A control point of the converted source's document was moved by
\* set_position, and the points of the result no longer read as they did
\* when convert returned.
C16_Divergence ==
    /\ res # Unused /\ nSwaps = 0
    /\ call # Unused /\ call.op = "set_position"
    /\ RawValues(heap, res.rep) # out.points
    /\ PositionsOf(DocView(heap, rep.markups)) = <<RawValues(heap, res.rep)>>

\* What the claim compares of a document: per markup its type and, per
\* control point, id, label and position.
Compared(doc) ==
    [k \in 1..Len(doc) |->
        [type |-> doc[k].type,
         controlPoints |-> [j \in 1..Len(doc[k].controlPoints) |->
             [id |-> doc[k].controlPoints[j].id,
              label |-> doc[k].controlPoints[j].label,
              position |-> doc[k].controlPoints[j].position]]]]

\* A non-empty raw geometry the class accepts: points, or pairs of points.
ValidGeometry ==
    /\ inputs # <<>>
    /\ rep.kind = "Line" => \A k \in 1..Len(inputs) : Len(inputs[k]) = 2

\* C17 as claimed: for a Point or Line representable with non-empty valid
\* raw geometry G, make_from(G) returns a document with the same markups
\* (count, types, and per control point id, label and position) as the
\* document a rebuild of the representable leaves and print serializes,
\* and the rebuild raises nothing.
C17_PathsAgreeAsClaimed ==
    (/\ rep.kind \in {"Point", "Line"} /\ ValidGeometry
     /\ out.from = "make_from" /\ nRebuilds >= 1) =>
        /\ out.kind = "json"
        /\ firstDoc.err = "none"
        /\ Compared(out.doc.markups) = Compared(DocView(heap, rep.markups))

\* For the points (0,0,0), (1,2,3) make_from returned control points with
\* ids 0, 1 and labels P_1-0, P_2-1, where the rebuilt document has ids
\* 1, 2 and labels L_1-1, L_2-2.
C17_Divergence ==
    /\ rep.kind = "Point" /\ inputs = << <<0, 0, 0>>, <<1, 2, 3>> >>
    /\ out.from = "make_from" /\ out.kind = "json" /\ nRebuilds >= 1
    /\ firstDoc.err = "none"
    /\ out.doc.markups[1].controlPoints[1].id = 0
    /\ out.doc.markups[1].controlPoints[2].label
         = <<"P", "_", "2", "-", "1">>
    /\ rep.markups[1].controlPoints[1].id = 1
    /\ rep.markups[1].controlPoints[2].label
         = <<"L", "_", "2", "-", "2">>

====
